---- MODULE Spec2Model ----
(***************************************************************************)
(* Model of Data_loading.py: a script that loads documents, normalises     *)
(* their text, splits and embeds them with an IngestionPipeline, writes    *)
(* every chunk into a persistent Chroma collection, builds an index and    *)
(* answers a query through RAGQueryEngine.                                 *)
(*                                                                         *)
(* A character is its Unicode code point and a text is a sequence of code  *)
(* points.  The process position is pc; a process that ran exit() is at    *)
(* pc = "exited" with exitAt naming the stage.  The collection lives on    *)
(* disk (./chroma_db) and survives the process, so a later run of the      *)
(* script (Restart) finds it.                                              *)
(***************************************************************************)
EXTENDS Integers, Sequences, FiniteSets, TLC

VARIABLES
    pc,            \* position of the script
    exitAt,        \* the stage whose handler called exit() ("" while running)
    docs,          \* line 58: the loaded documents
    nodes,         \* line 108: the nodes returned by pipeline.run
    wi,            \* line 113: the loop index i of the write loop
    collection,    \* line 89: the persistent collection, id -> entry
    storeOpen,     \* lines 88-91: the store was opened by this process
    index,         \* line 127: the nodes held by the VectorStoreIndex
    response,      \* line 167: the last answer
    lastQuery,     \* the query string of the last query
    queriesDone,   \* number of queries answered by the engine
    run,           \* number of the current run of the script
    stagesRun,     \* history: the stages this run has executed
    collAtStart,   \* history: the collection when this run started
    addCount,      \* history: collection.add calls completed in this run
    procNodes,     \* concurrent runs: the nodes each run writes
    procI,         \* concurrent runs: each run's loop index
    collInit,      \* concurrent runs: the collection before both runs
    interleaved,   \* concurrent runs: a write happened inside the other's loop
    normPath,      \* preprocess_text alone: the file path
    normText,      \* preprocess_text alone: the input text
    normOut,       \* preprocess_text alone: the output text
    normDone,      \* preprocess_text alone: the call has returned
    engine,        \* one engine in repeated use: the RAGQueryEngine object
    answers,       \* one engine in repeated use: history of query and answer
    collBefore     \* one engine in repeated use: the collection before the
                   \* first query

mvars == <<pc, exitAt, docs, nodes, wi, collection, storeOpen, index, response,
           lastQuery, queriesDone, run, stagesRun, collAtStart, addCount>>
cvars == <<procNodes, procI, collInit, interleaved>>
nvars == <<normPath, normText, normOut, normDone>>
evars == <<engine, answers, collBefore>>
vars == <<mvars, cvars, nvars, evars>>

(***************************************************************************)
(* Bounds of the model.                                                    *)
(***************************************************************************)
MaxDocs == 2
MaxRuns == 2
MaxTextLen == 3
LongLen == 150
MaxQueries == 3

(***************************************************************************)
(* Program constants.                                                      *)
(***************************************************************************)
chunk_size == 100
chunk_overlap == 10

(***************************************************************************)
(* Characters.                                                             *)
(***************************************************************************)
\* the printable ASCII characters U+0020 .. U+005F in order
PrintableLow ==
    <<" ","!","\"","#","$","%","&","'","(",")","*","+",",","-",".","/",
      "0","1","2","3","4","5","6","7","8","9",":",";","<","=",">","?",
      "@","A","B","C","D","E","F","G","H","I","J","K","L","M","N","O",
      "P","Q","R","S","T","U","V","W","X","Y","Z","[","\\","]","^","_">>
\* the printable ASCII characters U+0061 .. U+007E in order
PrintableHigh ==
    <<"a","b","c","d","e","f","g","h","i","j","k","l","m","n","o",
      "p","q","r","s","t","u","v","w","x","y","z","{","|","}","~">>

\* ord() of a printable ASCII character other than U+0060
Ord(ch) ==
    IF \E k \in DOMAIN PrintableLow : PrintableLow[k] = ch
    THEN 31 + (CHOOSE k \in DOMAIN PrintableLow : PrintableLow[k] = ch)
    ELSE 96 + (CHOOSE k \in DOMAIN PrintableHigh : PrintableHigh[k] = ch)

\* the text whose characters are the given printable ASCII characters
Chars(s) == [k \in DOMAIN s |-> Ord(s[k])]

Range(s) == {s[k] : k \in DOMAIN s}
Max(S) == CHOOSE x \in S : \A y \in S : y <= x
Min(S) == CHOOSE x \in S : \A y \in S : x <= y

\* line 45: A-Z and a-z
AsciiLetters == (Ord("A")..Ord("Z")) \cup (Ord("a")..Ord("z"))
\* line 45: 0-9
Digits == Ord("0")..Ord("9")

\* lines 45-46: what \s matches on a str pattern: U+0009..U+000D,
\* U+001C..U+001F, the blank, U+0085, U+00A0, U+1680, U+2000..U+200A,
\* U+2028, U+2029, U+202F, U+205F and U+3000
Whitespace ==
    (9..13) \cup (28..31) \cup {32, 133, 160, 5760} \cup (8192..8202)
        \cup {8232, 8233, 8239, 8287, 12288}

\* line 41: the simple lower-case mapping of str.lower() as ranges
\* <<first, last, step, offset>>: the code points first, first + step, ..
\* up to last map to themselves plus offset; every other code point maps
\* to itself (U+0130, whose lower case has two characters, is in LowerAt)
LowerRanges ==
    { <<65, 90, 1, 32>>, <<192, 214, 1, 32>>, <<216, 222, 1, 32>>,
      <<256, 302, 2, 1>>, <<306, 310, 2, 1>>, <<313, 327, 2, 1>>,
      <<330, 374, 2, 1>>, <<376, 376, 1, -121>>, <<377, 381, 2, 1>>,
      <<385, 385, 1, 210>>, <<386, 388, 2, 1>>, <<390, 390, 1, 206>>,
      <<391, 391, 1, 1>>, <<393, 394, 1, 205>>, <<395, 395, 1, 1>>,
      <<398, 398, 1, 79>>, <<399, 399, 1, 202>>, <<400, 400, 1, 203>>,
      <<401, 401, 1, 1>>, <<403, 403, 1, 205>>, <<404, 404, 1, 207>>,
      <<406, 406, 1, 211>>, <<407, 407, 1, 209>>, <<408, 408, 1, 1>>,
      <<412, 412, 1, 211>>, <<413, 413, 1, 213>>, <<415, 415, 1, 214>>,
      <<416, 420, 2, 1>>, <<422, 422, 1, 218>>, <<423, 423, 1, 1>>,
      <<425, 425, 1, 218>>, <<428, 428, 1, 1>>, <<430, 430, 1, 218>>,
      <<431, 431, 1, 1>>, <<433, 434, 1, 217>>, <<435, 437, 2, 1>>,
      <<439, 439, 1, 219>>, <<440, 440, 1, 1>>, <<444, 444, 1, 1>>,
      <<452, 452, 1, 2>>, <<453, 453, 1, 1>>, <<455, 455, 1, 2>>,
      <<456, 456, 1, 1>>, <<458, 458, 1, 2>>, <<459, 475, 2, 1>>,
      <<478, 494, 2, 1>>, <<497, 497, 1, 2>>, <<498, 500, 2, 1>>,
      <<502, 502, 1, -97>>, <<503, 503, 1, -56>>, <<504, 542, 2, 1>>,
      <<544, 544, 1, -130>>, <<546, 562, 2, 1>>, <<570, 570, 1, 10795>>,
      <<571, 571, 1, 1>>, <<573, 573, 1, -163>>, <<574, 574, 1, 10792>>,
      <<577, 577, 1, 1>>, <<579, 579, 1, -195>>, <<580, 580, 1, 69>>,
      <<581, 581, 1, 71>>, <<582, 590, 2, 1>>, <<880, 882, 2, 1>>,
      <<886, 886, 1, 1>>, <<895, 895, 1, 116>>, <<902, 902, 1, 38>>,
      <<904, 906, 1, 37>>, <<908, 908, 1, 64>>, <<910, 911, 1, 63>>,
      <<913, 929, 1, 32>>, <<931, 939, 1, 32>>, <<975, 975, 1, 8>>,
      <<984, 1006, 2, 1>>, <<1012, 1012, 1, -60>>, <<1015, 1015, 1, 1>>,
      <<1017, 1017, 1, -7>>, <<1018, 1018, 1, 1>>, <<1021, 1023, 1, -130>>,
      <<1024, 1039, 1, 80>>, <<1040, 1071, 1, 32>>, <<1120, 1152, 2, 1>>,
      <<1162, 1214, 2, 1>>, <<1216, 1216, 1, 15>>, <<1217, 1229, 2, 1>>,
      <<1232, 1326, 2, 1>>, <<1329, 1366, 1, 48>>, <<4256, 4293, 1, 7264>>,
      <<4295, 4295, 1, 7264>>, <<4301, 4301, 1, 7264>>, <<5024, 5103, 1, 38864>>,
      <<5104, 5109, 1, 8>>, <<7312, 7354, 1, -3008>>, <<7357, 7359, 1, -3008>>,
      <<7680, 7828, 2, 1>>, <<7838, 7838, 1, -7615>>, <<7840, 7934, 2, 1>>,
      <<7944, 7951, 1, -8>>, <<7960, 7965, 1, -8>>, <<7976, 7983, 1, -8>>,
      <<7992, 7999, 1, -8>>, <<8008, 8013, 1, -8>>, <<8025, 8031, 2, -8>>,
      <<8040, 8047, 1, -8>>, <<8072, 8079, 1, -8>>, <<8088, 8095, 1, -8>>,
      <<8104, 8111, 1, -8>>, <<8120, 8121, 1, -8>>, <<8122, 8123, 1, -74>>,
      <<8124, 8124, 1, -9>>, <<8136, 8139, 1, -86>>, <<8140, 8140, 1, -9>>,
      <<8152, 8153, 1, -8>>, <<8154, 8155, 1, -100>>, <<8168, 8169, 1, -8>>,
      <<8170, 8171, 1, -112>>, <<8172, 8172, 1, -7>>, <<8184, 8185, 1, -128>>,
      <<8186, 8187, 1, -126>>, <<8188, 8188, 1, -9>>, <<8486, 8486, 1, -7517>>,
      <<8490, 8490, 1, -8383>>, <<8491, 8491, 1, -8262>>, <<8498, 8498, 1, 28>>,
      <<8544, 8559, 1, 16>>, <<8579, 8579, 1, 1>>, <<9398, 9423, 1, 26>>,
      <<11264, 11311, 1, 48>>, <<11360, 11360, 1, 1>>, <<11362, 11362, 1, -10743>>,
      <<11363, 11363, 1, -3814>>, <<11364, 11364, 1, -10727>>, <<11367, 11371, 2, 1>>,
      <<11373, 11373, 1, -10780>>, <<11374, 11374, 1, -10749>>, <<11375, 11375, 1, -10783>>,
      <<11376, 11376, 1, -10782>>, <<11378, 11378, 1, 1>>, <<11381, 11381, 1, 1>>,
      <<11390, 11391, 1, -10815>>, <<11392, 11490, 2, 1>>, <<11499, 11501, 2, 1>>,
      <<11506, 11506, 1, 1>>, <<42560, 42604, 2, 1>>, <<42624, 42650, 2, 1>>,
      <<42786, 42798, 2, 1>>, <<42802, 42862, 2, 1>>, <<42873, 42875, 2, 1>>,
      <<42877, 42877, 1, -35332>>, <<42878, 42886, 2, 1>>, <<42891, 42891, 1, 1>>,
      <<42893, 42893, 1, -42280>>, <<42896, 42898, 2, 1>>, <<42902, 42920, 2, 1>>,
      <<42922, 42922, 1, -42308>>, <<42923, 42923, 1, -42319>>, <<42924, 42924, 1, -42315>>,
      <<42925, 42925, 1, -42305>>, <<42926, 42926, 1, -42308>>, <<42928, 42928, 1, -42258>>,
      <<42929, 42929, 1, -42282>>, <<42930, 42930, 1, -42261>>, <<42931, 42931, 1, 928>>,
      <<42932, 42946, 2, 1>>, <<42948, 42948, 1, -48>>, <<42949, 42949, 1, -42307>>,
      <<42950, 42950, 1, -35384>>, <<42951, 42953, 2, 1>>, <<42960, 42960, 1, 1>>,
      <<42966, 42968, 2, 1>>, <<42997, 42997, 1, 1>>, <<65313, 65338, 1, 32>>,
      <<66560, 66599, 1, 40>>, <<66736, 66771, 1, 40>>, <<66928, 66938, 1, 39>>,
      <<66940, 66954, 1, 39>>, <<66956, 66962, 1, 39>>, <<66964, 66965, 1, 39>>,
      <<68736, 68786, 1, 64>>, <<71840, 71871, 1, 32>>, <<93760, 93791, 1, 32>>,
      <<125184, 125217, 1, 34>> }

\* line 41: the cased characters (upper-case, lower-case or title-case),
\* as ranges <<first, last>>
CasedRanges ==
    { <<65, 90>>, <<97, 122>>, <<170, 170>>, <<181, 181>>,
      <<186, 186>>, <<192, 214>>, <<216, 246>>, <<248, 442>>,
      <<444, 447>>, <<452, 659>>, <<661, 696>>, <<704, 705>>,
      <<736, 740>>, <<837, 837>>, <<880, 883>>, <<886, 887>>,
      <<890, 893>>, <<895, 895>>, <<902, 902>>, <<904, 906>>,
      <<908, 908>>, <<910, 929>>, <<931, 1013>>, <<1015, 1153>>,
      <<1162, 1327>>, <<1329, 1366>>, <<1376, 1416>>, <<4256, 4293>>,
      <<4295, 4295>>, <<4301, 4301>>, <<4304, 4346>>, <<4349, 4351>>,
      <<5024, 5109>>, <<5112, 5117>>, <<7296, 7304>>, <<7312, 7354>>,
      <<7357, 7359>>, <<7424, 7615>>, <<7680, 7957>>, <<7960, 7965>>,
      <<7968, 8005>>, <<8008, 8013>>, <<8016, 8023>>, <<8025, 8025>>,
      <<8027, 8027>>, <<8029, 8029>>, <<8031, 8061>>, <<8064, 8116>>,
      <<8118, 8124>>, <<8126, 8126>>, <<8130, 8132>>, <<8134, 8140>>,
      <<8144, 8147>>, <<8150, 8155>>, <<8160, 8172>>, <<8178, 8180>>,
      <<8182, 8188>>, <<8305, 8305>>, <<8319, 8319>>, <<8336, 8348>>,
      <<8450, 8450>>, <<8455, 8455>>, <<8458, 8467>>, <<8469, 8469>>,
      <<8473, 8477>>, <<8484, 8484>>, <<8486, 8486>>, <<8488, 8488>>,
      <<8490, 8493>>, <<8495, 8500>>, <<8505, 8505>>, <<8508, 8511>>,
      <<8517, 8521>>, <<8526, 8526>>, <<8544, 8575>>, <<8579, 8580>>,
      <<9398, 9449>>, <<11264, 11492>>, <<11499, 11502>>, <<11506, 11507>>,
      <<11520, 11557>>, <<11559, 11559>>, <<11565, 11565>>, <<42560, 42605>>,
      <<42624, 42653>>, <<42786, 42887>>, <<42891, 42894>>, <<42896, 42954>>,
      <<42960, 42961>>, <<42963, 42963>>, <<42965, 42969>>, <<42997, 42998>>,
      <<43000, 43002>>, <<43824, 43866>>, <<43868, 43880>>, <<43888, 43967>>,
      <<64256, 64262>>, <<64275, 64279>>, <<65313, 65338>>, <<65345, 65370>>,
      <<66560, 66639>>, <<66736, 66771>>, <<66776, 66811>>, <<66928, 66938>>,
      <<66940, 66954>>, <<66956, 66962>>, <<66964, 66965>>, <<66967, 66977>>,
      <<66979, 66993>>, <<66995, 67001>>, <<67003, 67004>>, <<67456, 67456>>,
      <<67459, 67461>>, <<67463, 67504>>, <<67506, 67514>>, <<68736, 68786>>,
      <<68800, 68850>>, <<71840, 71903>>, <<93760, 93823>>, <<119808, 119892>>,
      <<119894, 119964>>, <<119966, 119967>>, <<119970, 119970>>, <<119973, 119974>>,
      <<119977, 119980>>, <<119982, 119993>>, <<119995, 119995>>, <<119997, 120003>>,
      <<120005, 120069>>, <<120071, 120074>>, <<120077, 120084>>, <<120086, 120092>>,
      <<120094, 120121>>, <<120123, 120126>>, <<120128, 120132>>, <<120134, 120134>>,
      <<120138, 120144>>, <<120146, 120485>>, <<120488, 120512>>, <<120514, 120538>>,
      <<120540, 120570>>, <<120572, 120596>>, <<120598, 120628>>, <<120630, 120654>>,
      <<120656, 120686>>, <<120688, 120712>>, <<120714, 120744>>, <<120746, 120770>>,
      <<120772, 120779>>, <<122624, 122633>>, <<122635, 122654>>, <<125184, 125251>>,
      <<127280, 127305>>, <<127312, 127337>>, <<127344, 127369>> }

\* line 41: the case-ignorable characters, as ranges <<first, last>>
CaseIgnorableRanges ==
    { <<39, 39>>, <<46, 46>>, <<58, 58>>, <<94, 94>>,
      <<96, 96>>, <<168, 168>>, <<173, 173>>, <<175, 175>>,
      <<180, 180>>, <<183, 184>>, <<688, 879>>, <<884, 885>>,
      <<890, 890>>, <<900, 901>>, <<903, 903>>, <<1155, 1161>>,
      <<1369, 1369>>, <<1375, 1375>>, <<1425, 1469>>, <<1471, 1471>>,
      <<1473, 1474>>, <<1476, 1477>>, <<1479, 1479>>, <<1524, 1524>>,
      <<1536, 1541>>, <<1552, 1562>>, <<1564, 1564>>, <<1600, 1600>>,
      <<1611, 1631>>, <<1648, 1648>>, <<1750, 1757>>, <<1759, 1768>>,
      <<1770, 1773>>, <<1807, 1807>>, <<1809, 1809>>, <<1840, 1866>>,
      <<1958, 1968>>, <<2027, 2037>>, <<2042, 2042>>, <<2045, 2045>>,
      <<2070, 2093>>, <<2137, 2139>>, <<2184, 2184>>, <<2192, 2193>>,
      <<2200, 2207>>, <<2249, 2306>>, <<2362, 2362>>, <<2364, 2364>>,
      <<2369, 2376>>, <<2381, 2381>>, <<2385, 2391>>, <<2402, 2403>>,
      <<2417, 2417>>, <<2433, 2433>>, <<2492, 2492>>, <<2497, 2500>>,
      <<2509, 2509>>, <<2530, 2531>>, <<2558, 2558>>, <<2561, 2562>>,
      <<2620, 2620>>, <<2625, 2626>>, <<2631, 2632>>, <<2635, 2637>>,
      <<2641, 2641>>, <<2672, 2673>>, <<2677, 2677>>, <<2689, 2690>>,
      <<2748, 2748>>, <<2753, 2757>>, <<2759, 2760>>, <<2765, 2765>>,
      <<2786, 2787>>, <<2810, 2815>>, <<2817, 2817>>, <<2876, 2876>>,
      <<2879, 2879>>, <<2881, 2884>>, <<2893, 2893>>, <<2901, 2902>>,
      <<2914, 2915>>, <<2946, 2946>>, <<3008, 3008>>, <<3021, 3021>>,
      <<3072, 3072>>, <<3076, 3076>>, <<3132, 3132>>, <<3134, 3136>>,
      <<3142, 3144>>, <<3146, 3149>>, <<3157, 3158>>, <<3170, 3171>>,
      <<3201, 3201>>, <<3260, 3260>>, <<3263, 3263>>, <<3270, 3270>>,
      <<3276, 3277>>, <<3298, 3299>>, <<3328, 3329>>, <<3387, 3388>>,
      <<3393, 3396>>, <<3405, 3405>>, <<3426, 3427>>, <<3457, 3457>>,
      <<3530, 3530>>, <<3538, 3540>>, <<3542, 3542>>, <<3633, 3633>>,
      <<3636, 3642>>, <<3654, 3662>>, <<3761, 3761>>, <<3764, 3772>>,
      <<3782, 3782>>, <<3784, 3789>>, <<3864, 3865>>, <<3893, 3893>>,
      <<3895, 3895>>, <<3897, 3897>>, <<3953, 3966>>, <<3968, 3972>>,
      <<3974, 3975>>, <<3981, 3991>>, <<3993, 4028>>, <<4038, 4038>>,
      <<4141, 4144>>, <<4146, 4151>>, <<4153, 4154>>, <<4157, 4158>>,
      <<4184, 4185>>, <<4190, 4192>>, <<4209, 4212>>, <<4226, 4226>>,
      <<4229, 4230>>, <<4237, 4237>>, <<4253, 4253>>, <<4348, 4348>>,
      <<4957, 4959>>, <<5906, 5908>>, <<5938, 5939>>, <<5970, 5971>>,
      <<6002, 6003>>, <<6068, 6069>>, <<6071, 6077>>, <<6086, 6086>>,
      <<6089, 6099>>, <<6103, 6103>>, <<6109, 6109>>, <<6155, 6159>>,
      <<6211, 6211>>, <<6277, 6278>>, <<6313, 6313>>, <<6432, 6434>>,
      <<6439, 6440>>, <<6450, 6450>>, <<6457, 6459>>, <<6679, 6680>>,
      <<6683, 6683>>, <<6742, 6742>>, <<6744, 6750>>, <<6752, 6752>>,
      <<6754, 6754>>, <<6757, 6764>>, <<6771, 6780>>, <<6783, 6783>>,
      <<6823, 6823>>, <<6832, 6862>>, <<6912, 6915>>, <<6964, 6964>>,
      <<6966, 6970>>, <<6972, 6972>>, <<6978, 6978>>, <<7019, 7027>>,
      <<7040, 7041>>, <<7074, 7077>>, <<7080, 7081>>, <<7083, 7085>>,
      <<7142, 7142>>, <<7144, 7145>>, <<7149, 7149>>, <<7151, 7153>>,
      <<7212, 7219>>, <<7222, 7223>>, <<7288, 7293>>, <<7376, 7378>>,
      <<7380, 7392>>, <<7394, 7400>>, <<7405, 7405>>, <<7412, 7412>>,
      <<7416, 7417>>, <<7468, 7530>>, <<7544, 7544>>, <<7579, 7679>>,
      <<8125, 8125>>, <<8127, 8129>>, <<8141, 8143>>, <<8157, 8159>>,
      <<8173, 8175>>, <<8189, 8190>>, <<8203, 8207>>, <<8216, 8217>>,
      <<8228, 8228>>, <<8231, 8231>>, <<8234, 8238>>, <<8288, 8292>>,
      <<8294, 8303>>, <<8305, 8305>>, <<8319, 8319>>, <<8336, 8348>>,
      <<8400, 8432>>, <<11388, 11389>>, <<11503, 11505>>, <<11631, 11631>>,
      <<11647, 11647>>, <<11744, 11775>>, <<11823, 11823>>, <<12293, 12293>>,
      <<12330, 12333>>, <<12337, 12341>>, <<12347, 12347>>, <<12441, 12446>>,
      <<12540, 12542>>, <<40981, 40981>>, <<42232, 42237>>, <<42508, 42508>>,
      <<42607, 42610>>, <<42612, 42621>>, <<42623, 42623>>, <<42652, 42655>>,
      <<42736, 42737>>, <<42752, 42785>>, <<42864, 42864>>, <<42888, 42890>>,
      <<42994, 42996>>, <<43000, 43001>>, <<43010, 43010>>, <<43014, 43014>>,
      <<43019, 43019>>, <<43045, 43046>>, <<43052, 43052>>, <<43204, 43205>>,
      <<43232, 43249>>, <<43263, 43263>>, <<43302, 43309>>, <<43335, 43345>>,
      <<43392, 43394>>, <<43443, 43443>>, <<43446, 43449>>, <<43452, 43453>>,
      <<43471, 43471>>, <<43493, 43494>>, <<43561, 43566>>, <<43569, 43570>>,
      <<43573, 43574>>, <<43587, 43587>>, <<43596, 43596>>, <<43632, 43632>>,
      <<43644, 43644>>, <<43696, 43696>>, <<43698, 43700>>, <<43703, 43704>>,
      <<43710, 43711>>, <<43713, 43713>>, <<43741, 43741>>, <<43756, 43757>>,
      <<43763, 43764>>, <<43766, 43766>>, <<43867, 43871>>, <<43881, 43883>>,
      <<44005, 44005>>, <<44008, 44008>>, <<44013, 44013>>, <<64286, 64286>>,
      <<64434, 64450>>, <<65024, 65039>>, <<65043, 65043>>, <<65056, 65071>>,
      <<65106, 65106>>, <<65109, 65109>>, <<65279, 65279>>, <<65287, 65287>>,
      <<65294, 65294>>, <<65306, 65306>>, <<65342, 65342>>, <<65344, 65344>>,
      <<65392, 65392>>, <<65438, 65439>>, <<65507, 65507>>, <<65529, 65531>>,
      <<66045, 66045>>, <<66272, 66272>>, <<66422, 66426>>, <<67456, 67461>>,
      <<67463, 67504>>, <<67506, 67514>>, <<68097, 68099>>, <<68101, 68102>>,
      <<68108, 68111>>, <<68152, 68154>>, <<68159, 68159>>, <<68325, 68326>>,
      <<68900, 68903>>, <<69291, 69292>>, <<69446, 69456>>, <<69506, 69509>>,
      <<69633, 69633>>, <<69688, 69702>>, <<69744, 69744>>, <<69747, 69748>>,
      <<69759, 69761>>, <<69811, 69814>>, <<69817, 69818>>, <<69821, 69821>>,
      <<69826, 69826>>, <<69837, 69837>>, <<69888, 69890>>, <<69927, 69931>>,
      <<69933, 69940>>, <<70003, 70003>>, <<70016, 70017>>, <<70070, 70078>>,
      <<70089, 70092>>, <<70095, 70095>>, <<70191, 70193>>, <<70196, 70196>>,
      <<70198, 70199>>, <<70206, 70206>>, <<70367, 70367>>, <<70371, 70378>>,
      <<70400, 70401>>, <<70459, 70460>>, <<70464, 70464>>, <<70502, 70508>>,
      <<70512, 70516>>, <<70712, 70719>>, <<70722, 70724>>, <<70726, 70726>>,
      <<70750, 70750>>, <<70835, 70840>>, <<70842, 70842>>, <<70847, 70848>>,
      <<70850, 70851>>, <<71090, 71093>>, <<71100, 71101>>, <<71103, 71104>>,
      <<71132, 71133>>, <<71219, 71226>>, <<71229, 71229>>, <<71231, 71232>>,
      <<71339, 71339>>, <<71341, 71341>>, <<71344, 71349>>, <<71351, 71351>>,
      <<71453, 71455>>, <<71458, 71461>>, <<71463, 71467>>, <<71727, 71735>>,
      <<71737, 71738>>, <<71995, 71996>>, <<71998, 71998>>, <<72003, 72003>>,
      <<72148, 72151>>, <<72154, 72155>>, <<72160, 72160>>, <<72193, 72202>>,
      <<72243, 72248>>, <<72251, 72254>>, <<72263, 72263>>, <<72273, 72278>>,
      <<72281, 72283>>, <<72330, 72342>>, <<72344, 72345>>, <<72752, 72758>>,
      <<72760, 72765>>, <<72767, 72767>>, <<72850, 72871>>, <<72874, 72880>>,
      <<72882, 72883>>, <<72885, 72886>>, <<73009, 73014>>, <<73018, 73018>>,
      <<73020, 73021>>, <<73023, 73029>>, <<73031, 73031>>, <<73104, 73105>>,
      <<73109, 73109>>, <<73111, 73111>>, <<73459, 73460>>, <<78896, 78904>>,
      <<92912, 92916>>, <<92976, 92982>>, <<92992, 92995>>, <<94031, 94031>>,
      <<94095, 94111>>, <<94176, 94177>>, <<94179, 94180>>, <<110576, 110579>>,
      <<110581, 110587>>, <<110589, 110590>>, <<113821, 113822>>, <<113824, 113827>>,
      <<118528, 118573>>, <<118576, 118598>>, <<119143, 119145>>, <<119155, 119170>>,
      <<119173, 119179>>, <<119210, 119213>>, <<119362, 119364>>, <<121344, 121398>>,
      <<121403, 121452>>, <<121461, 121461>>, <<121476, 121476>>, <<121499, 121503>>,
      <<121505, 121519>>, <<122880, 122886>>, <<122888, 122904>>, <<122907, 122913>>,
      <<122915, 122916>>, <<122918, 122922>>, <<123184, 123197>>, <<123566, 123566>>,
      <<123628, 123631>>, <<125136, 125142>>, <<125252, 125259>>, <<127995, 127999>>,
      <<917505, 917505>>, <<917536, 917631>>, <<917760, 917999>> }

IsCased(c) == \E r \in CasedRanges : r[1] <= c /\ c <= r[2]
IsCaseIgnorable(c) == \E r \in CaseIgnorableRanges : r[1] <= c /\ c <= r[2]

\* line 41: str.lower() on a one-character string, for every character
\* whose lower case is one character (all but U+0130)
LowerChar(c) ==
    LET R == {r \in LowerRanges :
                 r[1] <= c /\ c <= r[2] /\ (c - r[1]) % r[3] = 0}
    IN  IF R = {} THEN c ELSE c + (CHOOSE r \in R : TRUE)[4]

\* line 41: the capital sigma at place k of s stands at the end of a word:
\* the nearest character before it that is not case-ignorable is cased and
\* the nearest such character after it, if any, is not cased
FinalSigma(s, k) ==
    LET before == {j \in 1..(k - 1) : ~IsCaseIgnorable(s[j])}
        after == {j \in (k + 1)..Len(s) : ~IsCaseIgnorable(s[j])}
    IN  /\ before # {}
        /\ IsCased(s[Max(before)])
        /\ (after = {} \/ ~IsCased(s[Min(after)]))

\* line 41: what str.lower() puts for place k of s: U+03A3 at the end of
\* a word becomes the final small sigma U+03C2, U+0130 becomes i and the
\* combining dot U+0307, any other character its simple lower case
LowerAt(s, k) ==
    IF s[k] = 931 /\ FinalSigma(s, k) THEN <<962>>
    ELSE IF s[k] = 304 THEN <<105, 775>>
    ELSE <<LowerChar(s[k])>>

\* a place that holds a character (-1 marks a place that holds none)
IsChar(c) == c # -1

\* line 41: str.lower()
Lower(s) ==
    SelectSeq([j \in 1..(2 * Len(s)) |->
                  LET m == LowerAt(s, (j + 1) \div 2)
                  IN  IF j % 2 = 1 THEN m[1]
                      ELSE IF Len(m) = 2 THEN m[2] ELSE -1],
              IsChar)

\* str.rfind of one character, 0 when absent (positions count from 1)
LastIndexOf(s, c) ==
    LET I == {k \in DOMAIN s : s[k] = c}
    IN  IF I = {} THEN 0 ELSE Max(I)

\* os.path.splitext(p)[-1]: the text from the last dot of the last path
\* component, empty when that component has no dot or only leading dots
splitext(p) ==
    LET sepIndex == LastIndexOf(p, Ord("/"))
        dotIndex == LastIndexOf(p, Ord("."))
    IN  IF dotIndex > sepIndex
           /\ \E k \in (sepIndex + 1)..(dotIndex - 1) : p[k] # Ord(".")
        THEN SubSeq(p, dotIndex, Len(p))
        ELSE <<>>

\* os.path.basename, as the reader fills metadata["file_name"]
basename(p) == SubSeq(p, LastIndexOf(p, Ord("/")) + 1, Len(p))

\* line 38
text_extensions == { Chars(<<".","p","d","f">>), Chars(<<".","d","o","c","x">>),
                     Chars(<<".","p","p","t","x">>), Chars(<<".","t","x","t">>) }

\* line 45: the class [A-Za-z0-9\s]
IsKept(c) == c \in AsciiLetters \cup Digits \cup Whitespace
\* line 45: re.sub(r'[^A-Za-z0-9\s]', '', text)
StripPunctuation(text) == SelectSeq(text, IsKept)

\* line 46: re.sub(r'\s+', ' ', text): the first character of every run of
\* whitespace becomes a blank, the rest of the run is dropped
CollapseWhitespace(s) ==
    SelectSeq([k \in DOMAIN s |->
                  IF s[k] \in Whitespace
                  THEN IF k > 1 /\ s[k - 1] \in Whitespace THEN -1 ELSE Ord(" ")
                  ELSE s[k]],
              IsChar)

\* a variant of preprocess_text that collapses whitespace before it strips
preprocess_text_collapse_first(file_path, text) ==
    IF Lower(splitext(file_path)) \in text_extensions
    THEN StripPunctuation(CollapseWhitespace(text))
    ELSE text

\* lines 31-48
preprocess_text(file_path, text) ==
    IF Lower(splitext(file_path)) \in text_extensions
    THEN CollapseWhitespace(StripPunctuation(text))
    ELSE text

(***************************************************************************)
(* Documents, nodes and the stages of the pipeline.                        *)
(***************************************************************************)
\* a text longer than chunk_size after normalisation: letters with a dot at
\* every fifth and a blank at every seventh place
LongText == [k \in 1..LongLen |->
                IF k % 7 = 0 THEN Ord(" ")
                ELSE IF k % 5 = 0 THEN Ord(".") ELSE Ord("a")]

\* line 58: one loaded document, with the metadata the reader attaches
ReaderDoc(path, text) ==
    [metadata |-> [file_name |-> basename(path), file_path |-> path,
                   file_type |-> Lower(splitext(path))],
     text |-> text]

\* line 57: files the reader can meet (extensions among required_exts);
\* the text of a.pdf holds a comma, a blank followed by U+2003, and an x
DocKinds ==
    { ReaderDoc(Chars(<<"a",".","p","d","f">>),
                Chars(<<"H","i",","," ">>) \o <<8195>> \o Chars(<<"x">>)),
      ReaderDoc(Chars(<<"b",".","c","s","v">>), Chars(<<"x",",","1">>)),
      ReaderDoc(Chars(<<"m","/","c",".","p","d","f">>), LongText),
      ReaderDoc(Chars(<<"d",".","p","n","g">>), <<>>) }

\* line 58: what reader.load_data() may return
DocLists == UNION { [1..n -> DocKinds] : n \in 0..MaxDocs }

\* lines 77-78: doc.metadata.get(key, "")
MetadataGet(md, key) == IF key \in DOMAIN md THEN md[key] ELSE <<>>

\* lines 76-81: the loop body, on one document
PreprocessDoc(doc) ==
    LET md == [file_name |-> MetadataGet(doc.metadata, "file_name"),
               file_path |-> MetadataGet(doc.metadata, "file_path")]
    IN  [metadata |-> md, text |-> preprocess_text(md.file_path, doc.text)]

\* the splitter's constraint on its configuration
ValidConfig == 0 <= chunk_overlap /\ chunk_overlap < chunk_size

\* line 102: the distance between the starts of consecutive chunks
ChunkStep == chunk_size - chunk_overlap

\* line 102: the number of chunks of a text of n units
ChunkCount(n) ==
    Cardinality({s \in 1..n : /\ (s - 1) % ChunkStep = 0
                              /\ (s = 1 \/ s - ChunkStep + chunk_size - 1 < n)})

\* line 102: SentenceSplitter on one text; chunk k starts chunk_size minus
\* chunk_overlap units after chunk k-1 and holds at most chunk_size units
Split(text) ==
    [k \in 1..ChunkCount(Len(text)) |->
        LET s == 1 + (k - 1) * ChunkStep
        IN  [start |-> s,
             text |-> SubSeq(text, s, IF s + chunk_size - 1 < Len(text)
                                      THEN s + chunk_size - 1 ELSE Len(text))]]

NoMetadata == [file_name |-> <<>>, file_path |-> <<>>]
NoEmbedding == [by |-> "none", metadata |-> NoMetadata, text |-> <<>>]
\* line 103: Settings.embed_model on a node (it embeds metadata and text)
Embed(metadata, text) ==
    [by |-> "Settings.embed_model", metadata |-> metadata, text |-> text]
\* the collection's own embedding function, applied to a document given
\* to add without a vector
CollectionEmbed(document) ==
    [by |-> "collection.embedding_function", metadata |-> NoMetadata,
     text |-> document]

\* line 102: the nodes of document number d, not yet embedded
DocNodes(ds, d) ==
    LET parts == Split(ds[d].text)
    IN  [k \in DOMAIN parts |->
            [text |-> parts[k].text, metadata |-> ds[d].metadata,
             embedding |-> NoEmbedding,
             ref_doc_id |-> d, start_char_idx |-> parts[k].start]]

\* line 102: the nodes of documents 1..d, in document order
RECURSIVE SplitAll(_, _)
SplitAll(ds, d) ==
    IF d = 0 THEN <<>> ELSE SplitAll(ds, d - 1) \o DocNodes(ds, d)

\* line 103: every node gets its embedding, order kept
EmbedAll(ns) ==
    [k \in DOMAIN ns |->
        [ns[k] EXCEPT !.embedding = Embed(ns[k].metadata, ns[k].text)]]

\* line 108: pipeline.run(documents=docs)
PipelineRun(ds) == EmbedAll(SplitAll(ds, Len(ds)))

\* line 115: str(i)
RECURSIVE Str(_)
Str(n) == IF n < 10 THEN <<Ord("0") + n>>
          ELSE Str(n \div 10) \o <<Ord("0") + (n % 10)>>

\* the store's add: inserts or overwrites the entry at id; the vector is
\* computed by the collection because the caller passes none
StoreAdd(coll, id, document, metadata) ==
    [k \in DOMAIN coll \cup {id} |->
        IF k = id
        THEN [document |-> document, metadata |-> metadata,
              embedding |-> CollectionEmbed(document)]
        ELSE coll[k]]

\* a variant of the add call that leaves an id already present as it is
AddChunk_keep_existing(coll, i, node) ==
    IF Str(i) \in DOMAIN coll THEN coll
    ELSE StoreAdd(coll, Str(i), node.text, node.metadata)

\* lines 114-118: collection.add(ids=[str(i)], documents=[node.text],
\* metadatas=[node.metadata])
AddChunk(coll, i, node) == StoreAdd(coll, Str(i), node.text, node.metadata)

\* lines 113-118: the first n turns of the write loop
RECURSIVE WriteFirst(_, _, _)
WriteFirst(coll, ns, n) ==
    IF n = 0 THEN coll
    ELSE AddChunk(WriteFirst(coll, ns, n - 1), n - 1, ns[n])

\* lines 113-118: the whole write loop, on a collection nobody else writes
WriteAll(coll, ns) == WriteFirst(coll, ns, Len(ns))

EmptyCollection == [id \in {} |-> 0]

(***************************************************************************)
(* Retrieval and synthesis.                                                *)
(***************************************************************************)
\* line 167: "What is Python Indentation?"
Queries == { Chars(<<"W","h","a","t"," ","i","s"," ","P","y","t","h","o","n",
                     " ","I","n","d","e","n","t","a","t","i","o","n","?">>) }
NoResponse == [text |-> <<>>, source_nodes |-> <<>>, answered |-> FALSE]
similarity_top_k == 2

\* similarity of a query and a node: the characters they share
Score(q, node) == Cardinality(Range(q) \cap Range(node.text))

\* the position of the best node among S: highest score, then first
Best(q, idx, S) ==
    CHOOSE p \in S : \A r \in S :
        \/ Score(q, idx[p]) > Score(q, idx[r])
        \/ Score(q, idx[p]) = Score(q, idx[r]) /\ p <= r

RECURSIVE Ranked(_, _, _, _)
Ranked(q, idx, S, k) ==
    IF k = 0 \/ S = {} THEN <<>>
    ELSE LET p == Best(q, idx, S)
         IN  <<[text |-> idx[p].text, score |-> Score(q, idx[p])]>>
             \o Ranked(q, idx, S \ {p}, k - 1)

\* line 148: retriever.retrieve(query_str), the top similarity_top_k nodes
Retrieve(q, idx) == Ranked(q, idx, DOMAIN idx, similarity_top_k)

RECURSIVE ConcatTexts(_)
ConcatTexts(ns) ==
    IF ns = <<>> THEN <<>> ELSE Head(ns).text \o ConcatTexts(Tail(ns))

\* line 151: response_synthesizer.synthesize(query_str, nodes), no llm
Synthesize(q, ns) ==
    [text |-> ConcatTexts(ns), source_nodes |-> ns, answered |-> TRUE]

\* line 157: index.as_retriever()
as_retriever(idx) == [index |-> idx]

\* line 160: get_response_synthesizer(response_mode="compact")
get_response_synthesizer == [response_mode |-> "compact"]

\* lines 140-144, 162-164: a RAGQueryEngine object and its two fields
RAGQueryEngine(retriever, response_synthesizer) ==
    [retriever |-> retriever, response_synthesizer |-> response_synthesizer]

\* lines 156-164: the engine the script builds over an index
BuildEngine(idx) == RAGQueryEngine(as_retriever(idx), get_response_synthesizer)

\* lines 146-154: RAGQueryEngine.custom_query
custom_query(self, query_str) ==
    Synthesize(query_str, Retrieve(query_str, self.retriever.index))

(***************************************************************************)
(* The script, one action per stage.                                       *)
(***************************************************************************)
CUnchanged == UNCHANGED <<cvars, nvars, evars>>

\* exit(): the process ends at this stage; what is on disk stays
Exit(stage) ==
    /\ pc' = "exited"
    /\ exitAt' = stage

MainInit ==
    /\ pc = "model"
    /\ exitAt = ""
    /\ docs = <<>>
    /\ nodes = <<>>
    /\ wi = 0
    /\ collection = EmptyCollection
    /\ storeOpen = FALSE
    /\ index = <<>>
    /\ response = NoResponse
    /\ lastQuery = <<>>
    /\ queriesDone = 0
    /\ run = 1
    /\ stagesRun = {}
    /\ collAtStart = EmptyCollection
    /\ addCount = 0

ConcIdle ==
    /\ procNodes = <<>>
    /\ procI = <<>>
    /\ collInit = EmptyCollection
    /\ interleaved = FALSE

NormIdle ==
    /\ normPath = <<>>
    /\ normText = <<>>
    /\ normOut = <<>>
    /\ normDone = FALSE

EngineIdle ==
    /\ engine = <<>>
    /\ answers = <<>>
    /\ collBefore = EmptyCollection

Init == MainInit /\ ConcIdle /\ NormIdle /\ EngineIdle

\* lines 17-20: the embedding model loads
LoadModelOk ==
    /\ pc = "model"
    /\ pc' = "load"
    /\ stagesRun' = stagesRun \cup {"model"}
    /\ UNCHANGED <<exitAt, docs, nodes, wi, collection, storeOpen, index,
                   response, lastQuery, queriesDone, run, collAtStart, addCount>>
    /\ CUnchanged

\* lines 21-23: the embedding model cannot be loaded
LoadModelFail ==
    /\ pc = "model"
    /\ Exit("model")
    /\ stagesRun' = stagesRun \cup {"model"}
    /\ UNCHANGED <<docs, nodes, wi, collection, storeOpen, index,
                   response, lastQuery, queriesDone, run, collAtStart, addCount>>
    /\ CUnchanged

\* a variant of the loading block that goes on with an empty list
LoadDocs_keep_going ==
    /\ pc = "load"
    /\ \E ds \in DocLists :
        /\ docs' = ds
        /\ pc' = "preprocess"
        /\ exitAt' = exitAt
    /\ stagesRun' = stagesRun \cup {"load"}
    /\ UNCHANGED <<nodes, wi, collection, storeOpen, index,
                   response, lastQuery, queriesDone, run, collAtStart, addCount>>
    /\ CUnchanged

\* lines 55-64: the reader returns a list; an empty one ends the run
LoadDocs ==
    /\ pc = "load"
    /\ \E ds \in DocLists :
        /\ docs' = ds
        /\ IF ds = <<>>
           THEN Exit("no_docs")
           ELSE pc' = "preprocess" /\ exitAt' = exitAt
    /\ stagesRun' = stagesRun \cup {"load"}
    /\ UNCHANGED <<nodes, wi, collection, storeOpen, index,
                   response, lastQuery, queriesDone, run, collAtStart, addCount>>
    /\ CUnchanged

\* lines 57-72: the reader raises, or the list is loaded and a print of
\* lines 61-68 raises; the handler of lines 70-72 ends the run
LoadDocsFail ==
    /\ pc = "load"
    /\ \/ docs' = docs
       \/ \E ds \in DocLists : docs' = ds
    /\ Exit("load")
    /\ stagesRun' = stagesRun \cup {"load"}
    /\ UNCHANGED <<nodes, wi, collection, storeOpen, index,
                   response, lastQuery, queriesDone, run, collAtStart, addCount>>
    /\ CUnchanged

\* lines 75-81: metadata is cut down and the text normalised, every document
Preprocess ==
    /\ pc = "preprocess"
    /\ docs' = [d \in DOMAIN docs |-> PreprocessDoc(docs[d])]
    /\ pc' = "store"
    /\ stagesRun' = stagesRun \cup {"preprocess"}
    /\ UNCHANGED <<exitAt, nodes, wi, collection, storeOpen, index,
                   response, lastQuery, queriesDone, run, collAtStart, addCount>>
    /\ CUnchanged

\* a variant of the store set-up that starts from an empty collection
InitStore_recreate ==
    /\ pc = "store"
    /\ storeOpen' = TRUE
    /\ collection' = EmptyCollection
    /\ pc' = "pipeline"
    /\ stagesRun' = stagesRun \cup {"store"}
    /\ UNCHANGED <<exitAt, docs, nodes, wi, index,
                   response, lastQuery, queriesDone, run, collAtStart, addCount>>
    /\ CUnchanged

\* lines 86-92: the client opens ./chroma_db; get_or_create_collection
\* keeps what the collection holds
InitStore ==
    /\ pc = "store"
    /\ storeOpen' = TRUE
    /\ collection' = collection
    /\ pc' = "pipeline"
    /\ stagesRun' = stagesRun \cup {"store"}
    /\ UNCHANGED <<exitAt, docs, nodes, wi, index,
                   response, lastQuery, queriesDone, run, collAtStart, addCount>>
    /\ CUnchanged

\* lines 88-95: one of the three calls raises; when it is not the first,
\* the client has already opened ./chroma_db
InitStoreFail ==
    /\ pc = "store"
    /\ \E failing \in {"PersistentClient", "get_or_create_collection",
                       "ChromaVectorStore"} :
          storeOpen' = (failing # "PersistentClient")
    /\ Exit("store")
    /\ stagesRun' = stagesRun \cup {"store"}
    /\ UNCHANGED <<docs, nodes, wi, collection, index,
                   response, lastQuery, queriesDone, run, collAtStart, addCount>>
    /\ CUnchanged

\* lines 100-105: the splitter and the pipeline are constructed, the
\* configuration being a valid one
BuildPipeline ==
    /\ pc = "pipeline"
    /\ ValidConfig
    /\ pc' = "ingest"
    /\ stagesRun' = stagesRun \cup {"pipeline"}
    /\ UNCHANGED <<exitAt, docs, nodes, wi, collection, storeOpen, index,
                   response, lastQuery, queriesDone, run, collAtStart, addCount>>
    /\ CUnchanged

\* lines 100-105: SentenceSplitter(...) or IngestionPipeline(...) raises
\* (a rejected configuration is one such case); the block stands outside
\* any try, so the process dies here
BuildPipelineFail ==
    /\ pc = "pipeline"
    /\ Exit("config")
    /\ stagesRun' = stagesRun \cup {"pipeline"}
    /\ UNCHANGED <<docs, nodes, wi, collection, storeOpen, index,
                   response, lastQuery, queriesDone, run, collAtStart, addCount>>
    /\ CUnchanged

\* a variant of the ingestion block that writes the split nodes when the
\* embedding stage fails
RunPipelineFail_swallow ==
    /\ pc = "ingest"
    /\ nodes' = SplitAll(docs, Len(docs))
    /\ wi' = 0
    /\ IF nodes' = <<>>
       THEN Exit("no_nodes")
       ELSE pc' = "write" /\ exitAt' = exitAt
    /\ stagesRun' = stagesRun \cup {"split"}
    /\ UNCHANGED <<docs, collection, storeOpen, index,
                   response, lastQuery, queriesDone, run, collAtStart, addCount>>
    /\ CUnchanged

\* lines 108-112: pipeline.run splits and embeds; no node ends the run
RunPipeline ==
    /\ pc = "ingest"
    /\ nodes' = PipelineRun(docs)
    /\ wi' = 0
    /\ IF nodes' = <<>>
       THEN Exit("no_nodes")
       ELSE pc' = "write" /\ exitAt' = exitAt
    /\ stagesRun' = stagesRun \cup {"split", "embed"}
    /\ UNCHANGED <<docs, collection, storeOpen, index,
                   response, lastQuery, queriesDone, run, collAtStart, addCount>>
    /\ CUnchanged

\* lines 108-112, 119-121: the embedding stage of pipeline.run raises, or
\* pipeline.run returns its nodes (none, or some) and the print of line
\* 110 or of line 112 raises; either way the handler ends the run before
\* the write loop
RunPipelineFail ==
    /\ pc = "ingest"
    /\ \/ /\ nodes' = nodes
          /\ stagesRun' = stagesRun \cup {"split"}
       \/ /\ nodes' = PipelineRun(docs)
          /\ stagesRun' = stagesRun \cup {"split", "embed"}
    /\ Exit("embed")
    /\ UNCHANGED <<docs, wi, collection, storeOpen, index,
                   response, lastQuery, queriesDone, run, collAtStart, addCount>>
    /\ CUnchanged

\* lines 113-118: one turn of the write loop, the add succeeds
WriteChunk ==
    /\ pc = "write"
    /\ wi < Len(nodes)
    /\ collection' = AddChunk(collection, wi, nodes[wi + 1])
    /\ wi' = wi + 1
    /\ addCount' = addCount + 1
    /\ pc' = IF wi' = Len(nodes) THEN "index" ELSE "write"
    /\ stagesRun' = stagesRun \cup {"write"}
    /\ UNCHANGED <<exitAt, docs, nodes, storeOpen, index,
                   response, lastQuery, queriesDone, run, collAtStart>>
    /\ CUnchanged

\* lines 114, 119-121: the add of chunk i raises; nothing is undone
WriteChunkFail ==
    /\ pc = "write"
    /\ wi < Len(nodes)
    /\ Exit("write")
    /\ stagesRun' = stagesRun \cup {"write"}
    /\ UNCHANGED <<docs, nodes, wi, collection, storeOpen, index,
                   response, lastQuery, queriesDone, run, collAtStart, addCount>>
    /\ CUnchanged

\* lines 126-132: the index is built over the nodes (it keeps them in
\* memory) and its bookkeeping is persisted to ./persisted_index
BuildIndex ==
    /\ pc = "index"
    /\ index' = nodes
    /\ pc' = "query"
    /\ stagesRun' = stagesRun \cup {"index"}
    /\ UNCHANGED <<exitAt, docs, nodes, wi, collection, storeOpen,
                   response, lastQuery, queriesDone, run, collAtStart, addCount>>
    /\ CUnchanged

\* lines 127-135: building the index raises, or the index is built and
\* persisting it raises
BuildIndexFail ==
    /\ pc = "index"
    /\ \E failing \in {"VectorStoreIndex", "persist"} :
          index' = IF failing = "persist" THEN nodes ELSE index
    /\ Exit("index")
    /\ stagesRun' = stagesRun \cup {"index"}
    /\ UNCHANGED <<docs, nodes, wi, collection, storeOpen,
                   response, lastQuery, queriesDone, run, collAtStart, addCount>>
    /\ CUnchanged

\* lines 156-168: the engine is built and answers the one query of the
\* script, which then ends (EngineQuery is the engine asked again)
Query ==
    /\ pc = "query"
    /\ \E q \in Queries :
        /\ lastQuery' = q
        /\ response' = custom_query(BuildEngine(index), q)
    /\ queriesDone' = queriesDone + 1
    /\ pc' = "done"
    /\ stagesRun' = stagesRun \cup {"query"}
    /\ UNCHANGED <<exitAt, docs, nodes, wi, collection, storeOpen, index,
                   run, collAtStart, addCount>>
    /\ CUnchanged

\* lines 156-168: a call raises outside any try and the process dies with
\* the exception: before the answer exists, or, the query answered, in
\* the print of line 168
QueryFail ==
    /\ pc = "query"
    /\ \/ UNCHANGED <<response, lastQuery, queriesDone>>
       \/ /\ \E q \in Queries :
               /\ lastQuery' = q
               /\ response' = custom_query(BuildEngine(index), q)
          /\ queriesDone' = queriesDone + 1
    /\ Exit("uncaught")
    /\ stagesRun' = stagesRun \cup {"query"}
    /\ UNCHANGED <<docs, nodes, wi, collection, storeOpen, index,
                   run, collAtStart, addCount>>
    /\ CUnchanged

\* the script is started again: a fresh process, the same ./chroma_db
Restart ==
    /\ pc \in {"done", "exited"}
    /\ run < MaxRuns
    /\ pc' = "model"
    /\ exitAt' = ""
    /\ docs' = <<>>
    /\ nodes' = <<>>
    /\ wi' = 0
    /\ collection' = collection
    /\ storeOpen' = FALSE
    /\ index' = <<>>
    /\ response' = NoResponse
    /\ lastQuery' = <<>>
    /\ queriesDone' = 0
    /\ run' = run + 1
    /\ stagesRun' = {}
    /\ collAtStart' = collection
    /\ addCount' = 0
    /\ CUnchanged

Next ==
    \/ LoadModelOk
    \/ LoadModelFail
    \/ LoadDocs
    \/ LoadDocsFail
    \/ Preprocess
    \/ InitStore
    \/ InitStoreFail
    \/ BuildPipeline
    \/ BuildPipelineFail
    \/ RunPipeline
    \/ RunPipelineFail
    \/ WriteChunk
    \/ WriteChunkFail
    \/ BuildIndex
    \/ BuildIndexFail
    \/ Query
    \/ QueryFail
    \/ Restart

Spec == Init /\ [][Next]_vars

(***************************************************************************)
(* preprocess_text on its own: every path and text of the bounded sets.    *)
(***************************************************************************)
\* a letter, a capital, a digit, the blank, punctuation, tab, form feed,
\* the letter U+00E9, and the spaces U+1680 and U+3000
NormChars == {Ord("a"), Ord("Z"), Ord("7"), Ord(" "), Ord("!"),
              9, 12, 233, 5760, 12288}
NormTexts == UNION { [1..n -> NormChars] : n \in 0..MaxTextLen }
\* paths with and without a prose extension, in either case; the last
\* three end in U+03A3, hold U+0425 and end in U+0130
NormPaths ==
    { Chars(<<"a",".","t","x","t">>), Chars(<<"a",".","T","X","T">>),
      Chars(<<"a",".","P","d","f">>), Chars(<<"x","/","b",".","d","o","c","x">>),
      Chars(<<"c",".","p","p","t","x">>), Chars(<<"a",".","p","y">>),
      Chars(<<".","p","d","f">>), Chars(<<"a",".","b","/","t","x","t">>),
      Chars(<<"a",".","t","x","t",".","p","y">>), Chars(<<"p","d","f">>),
      Chars(<<"a",".","P">>) \o <<931>>,
      Chars(<<"a",".","T">>) \o <<1061>> \o Chars(<<"T">>),
      Chars(<<"a",".">>) \o <<304>> }

NormInit ==
    /\ MainInit
    /\ ConcIdle
    /\ EngineIdle
    /\ normPath \in NormPaths
    /\ normText \in NormTexts
    /\ normOut = <<>>
    /\ normDone = FALSE

\* lines 31-48: one call of preprocess_text
Normalize ==
    /\ ~normDone
    /\ normOut' = preprocess_text(normPath, normText)
    /\ normDone' = TRUE
    /\ UNCHANGED <<normPath, normText, mvars, cvars, evars>>

NormNext == Normalize

SpecNorm == NormInit /\ [][NormNext]_vars

(***************************************************************************)
(* Two runs of the script in their write loops on the same collection.     *)
(***************************************************************************)
Procs == {"A", "B"}

\* lines 75-108: the nodes a run gets from its documents
RunNodes(ds) == PipelineRun([d \in DOMAIN ds |-> PreprocessDoc(ds[d])])

ConcInit ==
    /\ MainInit
    /\ NormIdle
    /\ EngineIdle
    /\ procNodes \in [Procs -> {RunNodes(ds) : ds \in DocLists} \ {<<>>}]
    /\ procI = [p \in Procs |-> 0]
    /\ collInit = EmptyCollection
    /\ interleaved = FALSE

\* a variant of the write loop in which a run waits while another run is
\* inside its loop
ConcWrite_locked(p) ==
    /\ procI[p] < Len(procNodes[p])
    /\ \A q \in Procs \ {p} : procI[q] = 0 \/ procI[q] = Len(procNodes[q])
    /\ collection' = AddChunk(collection, procI[p], procNodes[p][procI[p] + 1])
    /\ procI' = [procI EXCEPT ![p] = procI[p] + 1]
    /\ interleaved' = interleaved
    /\ UNCHANGED <<pc, exitAt, docs, nodes, wi, storeOpen, index, response,
                   lastQuery, queriesDone, run, stagesRun, collAtStart, addCount>>
    /\ UNCHANGED <<procNodes, collInit, nvars, evars>>

\* lines 113-118: run p makes one turn of its write loop; nothing in the
\* loop waits for the other run
ConcWrite(p) ==
    /\ procI[p] < Len(procNodes[p])
    /\ collection' = AddChunk(collection, procI[p], procNodes[p][procI[p] + 1])
    /\ procI' = [procI EXCEPT ![p] = procI[p] + 1]
    /\ interleaved' =
          (interleaved \/ \E q \in Procs \ {p} :
                              0 < procI[q] /\ procI[q] < Len(procNodes[q]))
    /\ UNCHANGED <<pc, exitAt, docs, nodes, wi, storeOpen, index, response,
                   lastQuery, queriesDone, run, stagesRun, collAtStart, addCount>>
    /\ UNCHANGED <<procNodes, collInit, nvars, evars>>

ConcNext == \E p \in Procs : ConcWrite(p)

SpecConc == ConcInit /\ [][ConcNext]_vars

(***************************************************************************)
(* One RAGQueryEngine asked several queries, after a completed ingestion.  *)
(***************************************************************************)
\* line 167: the query of the script, and two more a caller may ask
EngineQueries ==
    Queries \cup { Chars(<<"x","1">>), Chars(<<"H","i">>) }

\* lines 156-164: the engine has been built over the index of a run that
\* loaded ds into an empty collection
EngineInit ==
    /\ ConcIdle
    /\ NormIdle
    /\ \E ds \in DocLists :
          /\ RunNodes(ds) # <<>>
          /\ docs = [d \in DOMAIN ds |-> PreprocessDoc(ds[d])]
          /\ nodes = RunNodes(ds)
    /\ pc = "query"
    /\ exitAt = ""
    /\ wi = Len(nodes)
    /\ collection = WriteAll(EmptyCollection, nodes)
    /\ storeOpen = TRUE
    /\ index = nodes
    /\ response = NoResponse
    /\ lastQuery = <<>>
    /\ queriesDone = 0
    /\ run = 1
    /\ stagesRun = {"model", "load", "preprocess", "store", "pipeline",
                    "split", "embed", "write", "index"}
    /\ collAtStart = EmptyCollection
    /\ addCount = Len(nodes)
    /\ engine = BuildEngine(index)
    /\ answers = <<>>
    /\ collBefore = collection

\* a variant of the engine that keeps the nodes of its first retrieval
\* and answers every later query from them
EngineQuery_memoising ==
    /\ pc = "query"
    /\ queriesDone < MaxQueries
    /\ \E q \in EngineQueries :
          LET found == IF "nodes" \in DOMAIN engine THEN engine.nodes
                       ELSE Retrieve(q, engine.retriever.index)
          IN  /\ lastQuery' = q
              /\ response' = Synthesize(q, found)
              /\ engine' = [retriever |-> engine.retriever,
                            response_synthesizer |-> engine.response_synthesizer,
                            nodes |-> found]
              /\ answers' = Append(answers, [query |-> q, response |-> response'])
    /\ queriesDone' = queriesDone + 1
    /\ UNCHANGED <<pc, exitAt, docs, nodes, wi, collection, storeOpen, index,
                   run, stagesRun, collAtStart, addCount, collBefore>>
    /\ UNCHANGED <<cvars, nvars>>

\* lines 146-154: one call of query on the engine; custom_query assigns
\* to no field of the engine and calls nothing that writes the store
EngineQuery ==
    /\ pc = "query"
    /\ queriesDone < MaxQueries
    /\ \E q \in EngineQueries :
          /\ lastQuery' = q
          /\ response' = custom_query(engine, q)
          /\ answers' = Append(answers, [query |-> q, response |-> response'])
    /\ engine' = engine
    /\ queriesDone' = queriesDone + 1
    /\ UNCHANGED <<pc, exitAt, docs, nodes, wi, collection, storeOpen, index,
                   run, stagesRun, collAtStart, addCount, collBefore>>
    /\ UNCHANGED <<cvars, nvars>>

EngineNext == EngineQuery

SpecEngine == EngineInit /\ [][EngineNext]_vars

(***************************************************************************)
(* Properties.                                                             *)
(***************************************************************************)
Aborted(stage) == pc = "exited" /\ exitAt = stage

\* the write loop of this run has completed
WritesDone == pc = "index" \/ "index" \in stagesRun

Contiguous(coll) ==
    DOMAIN coll = {Str(k) : k \in 0..(Cardinality(DOMAIN coll) - 1)}

\* C1: when an add fails part-way through the write loop, the collection
\* after the aborted run equals the collection before the run.
C1_AbortedWriteLeavesNoChunk ==
    Aborted("write") => collection = collAtStart

\* C2: when the embedding stage fails the run ends reported as failed with
\* no add executed and the collection unchanged; and every chunk that is
\* written carries an embedding.
C2_EmbeddingFailureWritesNothing ==
    /\ Aborted("embed") => (addCount = 0 /\ collection = collAtStart)
    /\ "split" \in stagesRun /\ "embed" \notin stagesRun => Aborted("embed")
    /\ \A k \in 1..addCount : nodes[k].embedding.by # "none"

C2_Witness ==
    /\ Aborted("embed")
    /\ "embed" \notin stagesRun
    /\ docs # <<>>
    /\ collection # EmptyCollection

\* C3: when the reader supplies zero documents the run ends reported as
\* failed, nothing is added to the collection and no later stage runs.
C3_NoDocumentsNoSideEffects ==
    ("load" \in stagesRun /\ docs = <<>>) =>
        /\ pc = "exited"
        /\ exitAt \in {"no_docs", "load"}
        /\ stagesRun \subseteq {"model", "load"}
        /\ ~storeOpen
        /\ addCount = 0
        /\ collection = collAtStart
        /\ nodes = <<>> /\ index = <<>> /\ queriesDone = 0

C3_Witness ==
    /\ Aborted("no_docs")
    /\ run > 1
    /\ collection # EmptyCollection

\* C4: the configuration is checked at pipeline construction, and until
\* that construction has run no document has been normalised and the
\* store has not been opened.
C4_ConfigCheckedBeforeProcessing ==
    "pipeline" \notin stagesRun =>
        ("preprocess" \notin stagesRun /\ "store" \notin stagesRun /\ ~storeOpen)

\* C5: after the write loop completes with n nodes, the collection holds
\* under id str(i) the text and metadata of node i for every i below n;
\* the ids are distinct and the nodes are in document-then-position order.
C5_EveryChunkPresentInOrder ==
    WritesDone =>
        /\ nodes # <<>>
        /\ \A i \in 0..(Len(nodes) - 1) :
              /\ Str(i) \in DOMAIN collection
              /\ collection[Str(i)].document = nodes[i + 1].text
              /\ collection[Str(i)].metadata = nodes[i + 1].metadata
        /\ \A i, j \in 0..(Len(nodes) - 1) : i # j => Str(i) # Str(j)
        /\ \A i, j \in DOMAIN nodes : i < j =>
              \/ nodes[i].ref_doc_id < nodes[j].ref_doc_id
              \/ /\ nodes[i].ref_doc_id = nodes[j].ref_doc_id
                 /\ nodes[i].start_char_idx < nodes[j].start_char_idx

C5_Witness ==
    /\ pc = "done"
    /\ run > 1
    /\ Len(nodes) >= 3
    /\ nodes[1].ref_doc_id = nodes[2].ref_doc_id
    /\ Str(0) \in DOMAIN collAtStart
    /\ collAtStart[Str(0)].document # nodes[1].text

\* C6: every entry written by this run holds the vector that the
\* embedding step attached to the same chunk.
C6_StoredVectorIsNodeEmbedding ==
    \A i \in 0..(addCount - 1) :
        /\ Str(i) \in DOMAIN collection
        /\ collection[Str(i)].embedding = nodes[i + 1].embedding

\* C7: after any number of queries on one engine the collection is what
\* it was before the first query and the engine is the object that was
\* built; every answer is synthesize(q, retrieve(q)) over the index, so a
\* query asked again gets the answer it got before, whatever was asked in
\* between.
C7_EngineReadsOnlyKeepsNoState ==
    /\ collection = collBefore
    /\ engine = BuildEngine(index)
    /\ Len(answers) = queriesDone
    /\ \A k \in DOMAIN answers :
          answers[k].response =
              Synthesize(answers[k].query, Retrieve(answers[k].query, index))
    /\ \A j, k \in DOMAIN answers :
          answers[j].query = answers[k].query =>
              answers[j].response = answers[k].response

C7_Witness ==
    /\ Len(answers) >= 3
    /\ answers[1].query = answers[3].query
    /\ answers[1].query # answers[2].query
    /\ answers[1].response # answers[2].response
    /\ answers[1].response.source_nodes # <<>>
    /\ collection # EmptyCollection

\* the extension of the path, case ignored, is one of the prose extensions
IsProsePath(p) == Lower(splitext(p)) \in text_extensions

NoWhitespaceRun(s) ==
    \A k \in 1..(Len(s) - 1) : ~(s[k] \in Whitespace /\ s[k + 1] \in Whitespace)

\* C8: for a path with a prose extension (case ignored) the output of
\* preprocess_text holds only ASCII letters, digits and whitespace and no
\* two adjacent whitespace characters; the empty text gives the empty text.
C8_ProseOutputIsClean ==
    (normDone /\ IsProsePath(normPath)) =>
        /\ \A k \in DOMAIN normOut : IsKept(normOut[k])
        /\ NoWhitespaceRun(normOut)
        /\ (normText = <<>> => normOut = <<>>)

C8_Witness ==
    /\ normDone
    /\ normPath = Chars(<<"a",".","T","X","T">>)
    /\ normText = <<5760, Ord("!"), 12288>>
    /\ normOut = Chars(<<" ">>)

AllDone == \A p \in Procs : procI[p] = Len(procNodes[p])
SerialAB == WriteAll(WriteAll(collInit, procNodes["A"]), procNodes["B"])
SerialBA == WriteAll(WriteAll(collInit, procNodes["B"]), procNodes["A"])

\* C9: nothing serialises two concurrent runs: a run that has a chunk left
\* can make its next write at any moment, also while the other run is
\* inside its loop; only when no write fell inside the other run's loop is
\* the collection what one of the two serial orders leaves.
C9_WritesAreNotSerialised ==
    /\ \A p \in Procs : procI[p] < Len(procNodes[p]) => ENABLED ConcWrite(p)
    /\ (AllDone /\ ~interleaved) => collection \in {SerialAB, SerialBA}

C9_Witness ==
    /\ AllDone
    /\ interleaved
    /\ collection \notin {SerialAB, SerialBA}
    /\ \E i, j \in 0..1 :
          /\ i # j
          /\ collection[Str(i)].document = procNodes["A"][i + 1].text
          /\ collection[Str(i)].document # procNodes["B"][i + 1].text
          /\ collection[Str(j)].document = procNodes["B"][j + 1].text
          /\ collection[Str(j)].document # procNodes["A"][j + 1].text

\* C10: no step removes an id from the collection, and the ids present
\* are always str(0) .. str(m-1); so after a run with fewer chunks than an
\* earlier one the earlier run's higher entries are still there.
C10_NeverDeletesContiguousIds ==
    [][/\ \A id \in DOMAIN collection : id \in DOMAIN collection'
       /\ Contiguous(collection')]_vars

C10_Witness ==
    /\ pc = "done"
    /\ run > 1
    /\ Len(nodes) < Cardinality(DOMAIN collection)
    /\ collection[Str(Len(nodes))] = collAtStart[Str(Len(nodes))]

====
